---- MODULE Spec2Model ----
(***************************************************************************)
(* The constraint-satisfaction notebook (cryptarithmetic, map coloring,    *)
(* N-Queens, Sudoku) as a state machine.  Each section of the notebook     *)
(* creates a solver, declares integer variables, adds constraints, calls   *)
(* the solver once and renders the model.  The solver is an external       *)
(* oracle; it is modelled as an exhaustive search over a bounded range of  *)
(* candidate integers, so that check() answers sat exactly when some       *)
(* assignment in that range satisfies every assertion, and model() may be  *)
(* any such assignment.                                                    *)
(***************************************************************************)
EXTENDS Integers, Sequences, FiniteSets, TLC

VARIABLES
    puzzle,     \* the section being run: "ca", "mc", "nq" or "su"
    enc,        \* which of the section's alternative encodings is added
    sizes,      \* the board sizes the N-Queens loop runs over
    board,      \* the Sudoku board: board[r][c], 0 for a blank box
    gives_up,   \* whether the solver ends its search without an answer
    todo,       \* the sections that run after this one, in order
    perm,       \* the order in which a section's add statements run
    pc,         \* the statement about to run
    i,          \* position in the statement's (outer) loop
    j,          \* position in the inner loop
    decl,       \* the Int(...) variables created so far, in order
    ca_solver,  \* assertions of ca_solver, in order of add
    mc_solver,  \* assertions of mc_solver
    nq_solver,  \* assertions of the current nq_solver
    s_solver,   \* assertions of s_solver
    result,     \* what the last check() returned: "none", "sat", "unsat" or "unknown"
    model,      \* the model the last check() produced (<<>> when none)
    calls,      \* per section, the check() calls made on its current solver
    runtimes,   \* the N-Queens sizes whose solve time was recorded
    solutions,  \* the N-Queens solvers kept by the loop
    out         \* the lines printed so far

vars == <<puzzle, enc, sizes, board, gives_up, todo, perm, pc, i, j, decl,
          ca_solver, mc_solver, nq_solver, s_solver, result, model, calls,
          runtimes, solutions, out>>

\* What a section is given and never assigns.
input == <<puzzle, enc, sizes, board, gives_up, todo, perm>>

\* What check() leaves behind.
answer == <<result, model, calls>>

\* The lists of the N-Queens loop.
lists == <<runtimes, solutions>>

(***************************************************************************)
(* Bounds of the model.                                                    *)
(***************************************************************************)
\* The oracle tries every integer from 0 - Pad to 9 + Pad for every variable.
Pad == 1

\* The largest board size given to nqueens.
MaxN == 8

Cand == (0 - Pad)..(9 + Pad)

Range(s) == {s[k] : k \in DOMAIN s}

(***************************************************************************)
(* Constraints.  One record shape for every z3 expression the notebook     *)
(* builds: op names the expression, xs/ys are the variables and ks/ls the  *)
(* integer literals it mentions.                                           *)
(***************************************************************************)
Con(op, xs, ks, ys, ls) == [op |-> op, xs |-> xs, ks |-> ks, ys |-> ys, ls |-> ls]

\* k <= x
LowerBound(k, x) == Con("lb", <<x>>, <<k>>, <<>>, <<>>)
\* x <= k
UpperBound(x, k) == Con("ub", <<x>>, <<k>>, <<>>, <<>>)
\* x < k
Less(x, k) == Con("lt", <<x>>, <<k>>, <<>>, <<>>)
\* x != k
NotEqualConst(x, k) == Con("nec", <<x>>, <<k>>, <<>>, <<>>)
\* x == k
EqualConst(x, k) == Con("eqc", <<x>>, <<k>>, <<>>, <<>>)
\* x != y
NotEqual(x, y) == Con("ne", <<x>>, <<>>, <<y>>, <<>>)
\* Distinct(xs)
Distinct(xs) == Con("distinct", xs, <<>>, <<>>, <<>>)
\* PbEq(((xs[1] == ys[1], ks[1]), ...), k)
PbEq(xs, ys, ks, k) == Con("pbeq", xs, ks, ys, <<k>>)
\* ks[1]*xs[1] + ... == ls[1]*ys[1] + ...
LinearEq(ks, xs, ls, ys) == Con("lin", xs, ks, ys, ls)
\* Abs(x - y) != k
AbsDiffNotEqual(x, y, k) == Con("absne", <<x, y>>, <<k>>, <<>>, <<>>)

VarsOfCon(c) == Range(c.xs) \cup Range(c.ys)

VarsOf(cs) == UNION {VarsOfCon(cs[k]) : k \in DOMAIN cs}

\* If(x >= 0, x, x): the negative branch not negated.
Abs_NotNegated(x) == IF x >= 0 THEN x ELSE x

\* def Abs(x): return If(x >= 0, x, -x)
Abs(x) == IF x >= 0 THEN x ELSE 0 - x

RECURSIVE Pow(_, _)
Pow(b, e) == IF e = 0 THEN 1 ELSE b * Pow(b, e - 1)

RECURSIVE Sum(_, _, _, _)
\* ks[1]*m[xs[1]] + ... + ks[n]*m[xs[n]]
Sum(ks, xs, m, n) == IF n = 0 THEN 0 ELSE ks[n] * m[xs[n]] + Sum(ks, xs, m, n - 1)

RECURSIVE PbSum(_, _, _)
\* the total weight of the pairs of c that are equal under m
PbSum(c, m, n) ==
    IF n = 0 THEN 0
    ELSE (IF m[c.xs[n]] = m[c.ys[n]] THEN c.ks[n] ELSE 0) + PbSum(c, m, n - 1)

\* Distinct under a partial assignment: no two assigned arguments are equal.
DistinctHolds(xs, m) ==
    \A a \in DOMAIN xs : \A b \in DOMAIN xs :
        (a < b /\ xs[a] \in DOMAIN m /\ xs[b] \in DOMAIN m) => m[xs[a]] # m[xs[b]]

\* The truth of constraint c under an assignment m that defines c's variables.
Holds(c, m) ==
    CASE c.op = "lb" -> c.ks[1] <= m[c.xs[1]]
      [] c.op = "ub" -> m[c.xs[1]] <= c.ks[1]
      [] c.op = "lt" -> m[c.xs[1]] < c.ks[1]
      [] c.op = "nec" -> m[c.xs[1]] # c.ks[1]
      [] c.op = "eqc" -> m[c.xs[1]] = c.ks[1]
      [] c.op = "ne" -> m[c.xs[1]] # m[c.ys[1]]
      [] c.op = "distinct" -> DistinctHolds(c.xs, m)
      [] c.op = "pbeq" -> PbSum(c, m, Len(c.xs)) = c.ls[1]
      [] c.op = "lin" -> Sum(c.ks, c.xs, m, Len(c.xs)) = Sum(c.ls, c.ys, m, Len(c.ys))
      [] c.op = "absne" -> Abs(m[c.xs[1]] - m[c.xs[2]]) # c.ks[1]

RECURSIVE SumLow(_, _, _, _)
\* The least value of ks[1]*xs[1] + ... + ks[n]*xs[n] when the variables m
\* assigns have their value and the others range over Cand.
SumLow(ks, xs, m, n) ==
    IF n = 0 THEN 0
    ELSE SumLow(ks, xs, m, n - 1) +
         (IF xs[n] \in DOMAIN m THEN ks[n] * m[xs[n]]
          ELSE IF ks[n] >= 0 THEN ks[n] * (0 - Pad) ELSE ks[n] * (9 + Pad))

RECURSIVE SumHigh(_, _, _, _)
\* The greatest value of the same sum.
SumHigh(ks, xs, m, n) ==
    IF n = 0 THEN 0
    ELSE SumHigh(ks, xs, m, n - 1) +
         (IF xs[n] \in DOMAIN m THEN ks[n] * m[xs[n]]
          ELSE IF ks[n] >= 0 THEN ks[n] * (9 + Pad) ELSE ks[n] * (0 - Pad))

\* A partial assignment m does not yet falsify c: no two assigned arguments
\* of a Distinct are equal, the two sides of a linear equality can still
\* meet, and any other constraint holds once all its variables are assigned.
Consistent(c, m) ==
    CASE c.op = "distinct" -> DistinctHolds(c.xs, m)
      [] c.op = "lin" ->
            /\ SumLow(c.ks, c.xs, m, Len(c.xs)) <= SumHigh(c.ls, c.ys, m, Len(c.ys))
            /\ SumLow(c.ls, c.ys, m, Len(c.ys)) <= SumHigh(c.ks, c.xs, m, Len(c.xs))
      [] OTHER -> VarsOfCon(c) \subseteq DOMAIN m => Holds(c, m)

\* m defines every variable of the assertions cs and satisfies all of them.
Satisfies(m, cs) ==
    /\ VarsOf(cs) \subseteq DOMAIN m
    /\ \A k \in DOMAIN cs : Holds(cs[k], m)

(***************************************************************************)
(* The oracle: Solver.check() and Solver.model().  A depth-first search    *)
(* that assigns one variable at a time and abandons a partial assignment   *)
(* as soon as an assertion rules it out.                                   *)
(***************************************************************************)
\* The variable the search assigns next: one that a linear equality with a
\* single unassigned variable determines, else the first unassigned declared
\* one.
Pick(cs, eqs, order, m) ==
    LET forced == UNION {LET u == VarsOfCon(cs[n]) \ DOMAIN m
                         IN  IF Cardinality(u) = 1 THEN u ELSE {} : n \in eqs}
        open == {k \in DOMAIN order :
                      /\ order[k] \notin DOMAIN m
                      /\ forced # {} => order[k] \in forced}
    IN  order[CHOOSE k \in open : \A l \in open : k <= l]

\* Assigning v to x keeps c unfalsified, for a c that mentions x and a
\* partial assignment m that did not falsify it; mv is m with x set to v.
Admits(c, m, x, v, mv) ==
    IF c.op = "distinct"
    THEN /\ Cardinality({a \in DOMAIN c.xs : c.xs[a] = x}) = 1
         /\ \A a \in DOMAIN c.xs : c.xs[a] \in DOMAIN m => m[c.xs[a]] # v
    ELSE Consistent(c, mv)

RECURSIVE Extensions(_, _, _, _, _)
\* Every total assignment over Cand that extends m and satisfies cs; on[x]
\* are the assertions that mention x.
Extensions(cs, eqs, on, order, m) ==
    IF Cardinality(DOMAIN m) = Cardinality(DOMAIN on) THEN {m}
    ELSE LET x == Pick(cs, eqs, order, m)
             Try(v) == m @@ (x :> v)
             ok == {v \in Cand : LET mv == Try(v)
                                 IN  \A n \in on[x] : Admits(cs[n], m, x, v, mv)}
         IN  UNION {Extensions(cs, eqs, on, order, Try(v)) : v \in ok}

\* The models of the assertions cs: the assignments to the variables that
\* occur in cs (taken in declaration order) that satisfy every assertion.
\* The search starts from the values that assertions x == k fix.
Models(cs, declared) ==
    LET occurring == VarsOf(cs)
        order == SelectSeq(declared, LAMBDA x : x \in occurring)
        eqs == {n \in DOMAIN cs : cs[n].op = "lin"}
        \* merged with the empty function so that the table is built once
        on == [x \in Range(order) |-> {n \in DOMAIN cs : x \in VarsOfCon(cs[n])}] @@ <<>>
        fixing == {n \in DOMAIN cs : cs[n].op = "eqc"}
        fixed == [x \in {cs[n].xs[1] : n \in fixing} |->
                     cs[CHOOSE n \in fixing : cs[n].xs[1] = x].ks[1]]
    IN  IF \A x \in DOMAIN fixed :
              /\ fixed[x] \in Cand
              /\ \A n \in on[x] : Consistent(cs[n], fixed)
        THEN Extensions(cs, eqs, on, order, fixed)
        ELSE {}

\* An assert on check() with no comparison: whatever check() returns counts
\* as true.
EqualsSat_Uncompared(r) == r \in {"sat", "unsat", "unknown"}

\* check() == sat, the condition of the asserts of sections I, II and IV
EqualsSat(r) == r = "sat"

(***************************************************************************)
(* I. Cryptarithmetic: TWO + TWO = FOUR.                                   *)
(***************************************************************************)
Letters == <<"F", "O", "R", "T", "U", "W">>

Carries == <<"c1", "c2", "c3">>

\* 0 <= X alone: no upper bound
LetterRange_LowerOnly(x) == <<LowerBound(0, x)>>

\* 0 <= X, X <= 9
LetterRange(x) == <<LowerBound(0, x), UpperBound(x, 9)>>

\* ca_solver.add(T != 0): the condition on F left out.
LeadingDigits_OnlyT == <<NotEqualConst("T", 0)>>

\* F != 0, T != 0
LeadingDigits == <<NotEqualConst("F", 0), NotEqualConst("T", 0)>>

\* Distinct over five of the six letters: W is left out.
AllLettersDistinct_OmitsW == <<Distinct(<<"F", "O", "R", "T", "U">>)>>

\* Distinct([F, O, R, T, U, W])
AllLettersDistinct == <<Distinct(<<"F", "O", "R", "T", "U", "W">>)>>

\* The units column counted once: ... + O*10**0 == ...
Monolithic_SingleO ==
    <<LinearEq(<<Pow(10, 2), Pow(10, 2), Pow(10, 1), Pow(10, 1), Pow(10, 0)>>,
               <<"T", "T", "W", "W", "O">>,
               <<Pow(10, 3), Pow(10, 2), Pow(10, 1), Pow(10, 0)>>,
               <<"F", "O", "U", "R">>)>>

\* (T + T)*10**2 + (W + W)*10**1 + (O + O)*10**0
\*     == F*10**3 + O*10**2 + U*10**1 + R*10**0
Monolithic ==
    <<LinearEq(<<Pow(10, 2), Pow(10, 2), Pow(10, 1), Pow(10, 1), Pow(10, 0), Pow(10, 0)>>,
               <<"T", "T", "W", "W", "O", "O">>,
               <<Pow(10, 3), Pow(10, 2), Pow(10, 1), Pow(10, 0)>>,
               <<"F", "O", "U", "R">>)>>

\* The alternative the notebook describes: one equality per column, each with
\* a carry variable, (O + O)*10**0 == R*10**0 + carry_1*10**1 and so on up to
\* the last carry, which is the leading digit F.
Decomposed ==
    <<LinearEq(<<Pow(10, 0), Pow(10, 0)>>, <<"O", "O">>,
               <<Pow(10, 0), Pow(10, 1)>>, <<"R", "c1">>),
      LinearEq(<<1, 1, 1>>, <<"W", "W", "c1">>, <<1, 10>>, <<"U", "c2">>),
      LinearEq(<<1, 1, 1>>, <<"T", "T", "c2">>, <<1, 10>>, <<"O", "c3">>),
      LinearEq(<<1>>, <<"c3">>, <<1>>, <<"F">>)>>

\* ca_solver = Solver()
CA_NewSolver ==
    /\ pc = "ca_new"
    /\ ca_solver' = <<>>
    /\ calls' = [calls EXCEPT !["ca"] = 0]
    /\ i' = 1
    /\ pc' = "ca_int"
    /\ UNCHANGED <<input, j, decl, mc_solver, nq_solver, s_solver, result, model, lists, out>>

\* F = Int('F') and likewise O, R, T, U, W
CA_Int ==
    /\ pc = "ca_int"
    /\ decl' = Append(decl, Letters[i])
    /\ pc' = "ca_range"
    /\ UNCHANGED <<input, i, j, ca_solver, mc_solver, nq_solver, s_solver, answer, lists, out>>

\* ca_solver.add(0 <= F, F <= 9) and likewise O, R, T, U, W
CA_Range ==
    /\ pc = "ca_range"
    /\ ca_solver' = ca_solver \o LetterRange(Letters[i])
    /\ i' = i + 1
    /\ pc' = IF i < Len(Letters) THEN "ca_int" ELSE "ca_leading"
    /\ UNCHANGED <<input, j, decl, mc_solver, nq_solver, s_solver, answer, lists, out>>

\* ca_solver.add(F!=0,T!=0)
CA_Leading ==
    /\ pc = "ca_leading"
    /\ ca_solver' = ca_solver \o LeadingDigits
    /\ pc' = "ca_distinct"
    /\ UNCHANGED <<input, i, j, decl, mc_solver, nq_solver, s_solver, answer, lists, out>>

\* ca_solver.add(Distinct([F, O, R, T, U, W]))
CA_Distinct ==
    /\ pc = "ca_distinct"
    /\ ca_solver' = ca_solver \o AllLettersDistinct
    /\ pc' = "ca_equation"
    /\ UNCHANGED <<input, i, j, decl, mc_solver, nq_solver, s_solver, answer, lists, out>>

\* "Pick one of the possible encodings": the notebook's cell adds the single
\* constraint; the other choice declares the carries and adds the columns.
CA_Equation ==
    /\ pc = "ca_equation"
    /\ \/ /\ enc = "monolithic"
          /\ ca_solver' = ca_solver \o Monolithic
          /\ decl' = decl
       \/ /\ enc = "decomposed"
          /\ ca_solver' = ca_solver \o Decomposed
          /\ decl' = decl \o Carries
    /\ pc' = "ca_check"
    /\ UNCHANGED <<input, i, j, mc_solver, nq_solver, s_solver, answer, lists, out>>

\* assert ca_solver.check() == sat
CA_Check ==
    /\ pc = "ca_check"
    /\ calls' = [calls EXCEPT !["ca"] = @ + 1]
    /\ IF gives_up
       THEN /\ result' = "unknown"
            /\ model' = <<>>
       ELSE LET ms == Models(ca_solver, decl)
            IN  \/ /\ ms = {}
                   /\ result' = "unsat"
                   /\ model' = <<>>
                \/ /\ ms # {}
                   /\ result' = "sat"
                   /\ model' \in ms
    /\ pc' = IF EqualsSat(result') THEN "ca_print" ELSE "error"
    /\ i' = IF EqualsSat(result') THEN 1 ELSE i
    /\ UNCHANGED <<input, j, decl, ca_solver, mc_solver, nq_solver, s_solver, lists, out>>

\* The k-th of the four print statements, as the values it formats:
\* T W O, + T W O, the rule, F O U R, each read from ca_solver.model().
CA_Line(k, m) ==
    CASE k = 1 -> <<ToString(m["T"]), ToString(m["W"]), ToString(m["O"])>>
      [] k = 2 -> <<"+", ToString(m["T"]), ToString(m["W"]), ToString(m["O"])>>
      [] k = 3 -> <<"-------">>
      [] k = 4 -> <<ToString(m["F"]), ToString(m["O"]), ToString(m["U"]), ToString(m["R"])>>

\* print(... .format(ca_solver.model()[T], ...)), four times
CA_Print ==
    /\ pc = "ca_print"
    /\ out' = Append(out, CA_Line(i, model))
    /\ i' = i + 1
    /\ pc' = IF i < 4 THEN "ca_print" ELSE "done"
    /\ UNCHANGED <<input, j, decl, ca_solver, mc_solver, nq_solver, s_solver, answer, lists>>

CA_Next ==
    \/ CA_NewSolver
    \/ CA_Int
    \/ CA_Range
    \/ CA_Leading
    \/ CA_Distinct
    \/ CA_Equation
    \/ CA_Check
    \/ CA_Print

(***************************************************************************)
(* II. Map coloring.                                                       *)
(***************************************************************************)
\* colors = {'0': "Blue", '1': "Red", '2': "Green"}
colors == ("0" :> "Blue") @@ ("1" :> "Red") @@ ("2" :> "Green")

\* The regions in the order the notebook declares them.
Regions == <<"WA", "SA", "NT", "Q", "NSW", "V", "T">>

\* The regions in the order the notebook prints them.
PrintedRegions == <<"WA", "NT", "SA", "Q", "NSW", "V", "T">>

\* 0 <= X, X <= 3: one color too many
RegionRange_FourColors(x) == <<LowerBound(0, x), UpperBound(x, 3)>>

\* 0 <= X, X <= 1: one color too few
RegionRange_TwoColors(x) == <<LowerBound(0, x), UpperBound(x, 1)>>

\* 0 <= X, X <= 2
RegionRange(x) == <<LowerBound(0, x), UpperBound(x, 2)>>

\* PbEq(((a == b[1], 1), (a == b[2], 1), ...), 0)
NoneEqual(a, bs) == PbEq([k \in DOMAIN bs |-> a], bs, [k \in DOMAIN bs |-> 1], 0)

\* The border between SA and V left out of both statements that name it.
PbEqStatements_NoSAV ==
    <<NoneEqual("WA", <<"NT", "SA">>),
      NoneEqual("NT", <<"WA", "SA", "Q">>),
      NoneEqual("SA", <<"WA", "NT", "Q", "NSW">>),
      NoneEqual("Q", <<"NT", "SA", "NSW">>),
      NoneEqual("NSW", <<"SA", "Q", "V">>),
      NoneEqual("V", <<"NSW">>)>>

\* The six mc_solver.add(PbEq(...)) statements.
PbEqStatements ==
    <<NoneEqual("WA", <<"NT", "SA">>),
      NoneEqual("NT", <<"WA", "SA", "Q">>),
      NoneEqual("SA", <<"WA", "NT", "Q", "NSW", "V">>),
      NoneEqual("Q", <<"NT", "SA", "NSW">>),
      NoneEqual("NSW", <<"SA", "Q", "V">>),
      NoneEqual("V", <<"SA", "NSW">>)>>

\* The keys of the adjacency dict, in insertion order.
AdjacencyKeys == <<"WA", "NT", "SA", "Q", "NSW", "V">>

\* adjacency = {WA: [NT, SA], NT: [WA, SA, Q], SA: [WA, NT, Q, NSW, V],
\*              Q: [NT, SA, NSW], NSW: [SA, Q, V], V: [SA, NSW]}
adjacency ==
    ("WA" :> <<"NT", "SA">>) @@
    ("NT" :> <<"WA", "SA", "Q">>) @@
    ("SA" :> <<"WA", "NT", "Q", "NSW", "V">>) @@
    ("Q" :> <<"NT", "SA", "NSW">>) @@
    ("NSW" :> <<"SA", "Q", "V">>) @@
    ("V" :> <<"SA", "NSW">>)

\* One store of assertions for the whole notebook: the map section goes on
\* from what the cryptarithmetic section asserted.
MC_NewSolver_SharedStore ==
    /\ pc = "mc_new"
    /\ mc_solver' = ca_solver
    /\ calls' = [calls EXCEPT !["mc"] = 0]
    /\ i' = 1
    /\ pc' = "mc_int"
    /\ UNCHANGED <<input, j, decl, ca_solver, nq_solver, s_solver, result, model, lists, out>>

\* The inequalities the loop over adjacency[AdjacencyKeys[k]] adds.
PairwiseOf(k) ==
    [n \in DOMAIN adjacency[AdjacencyKeys[k]] |->
        NotEqual(AdjacencyKeys[k], adjacency[AdjacencyKeys[k]][n])]

\* mc_solver = Solver(); colors = ...
MC_NewSolver ==
    /\ pc = "mc_new"
    /\ mc_solver' = <<>>
    /\ calls' = [calls EXCEPT !["mc"] = 0]
    /\ i' = 1
    /\ pc' = "mc_int"
    /\ UNCHANGED <<input, j, decl, ca_solver, nq_solver, s_solver, result, model, lists, out>>

\* WA = Int('WA') and likewise SA, NT, Q, NSW, V, T
MC_Int ==
    /\ pc = "mc_int"
    /\ decl' = Append(decl, Regions[i])
    /\ pc' = "mc_range"
    /\ UNCHANGED <<input, i, j, ca_solver, mc_solver, nq_solver, s_solver, answer, lists, out>>

\* mc_solver.add(0 <= WA, WA <= 2) and likewise SA, NT, Q, NSW, V, T; then
\* the cell of the chosen encoding (with "both", the PbEq cell comes first).
MC_Range ==
    /\ pc = "mc_range"
    /\ mc_solver' = mc_solver \o RegionRange(Regions[i])
    /\ i' = IF i < Len(Regions) THEN i + 1 ELSE 1
    /\ j' = IF i < Len(Regions) THEN j ELSE 1
    /\ pc' = IF i < Len(Regions) THEN "mc_int"
             ELSE IF enc = "pairwise" THEN "mc_pairwise" ELSE "mc_pbeq"
    /\ UNCHANGED <<input, decl, ca_solver, nq_solver, s_solver, answer, lists, out>>

\* mc_solver.add(PbEq(...)), six statements
MC_PbEq ==
    /\ pc = "mc_pbeq"
    /\ mc_solver' = Append(mc_solver, PbEqStatements[i])
    /\ i' = IF i < Len(PbEqStatements) THEN i + 1 ELSE 1
    /\ pc' = IF i < Len(PbEqStatements) THEN "mc_pbeq"
             ELSE IF enc = "both" THEN "mc_pairwise" ELSE "mc_check"
    /\ UNCHANGED <<input, j, decl, ca_solver, nq_solver, s_solver, answer, lists, out>>

\* for rA in adjacency: for rB in adjacency[rA]: mc_solver.add(rA != rB)
MC_Pairwise ==
    /\ pc = "mc_pairwise"
    /\ LET rA == AdjacencyKeys[i]
           rB == adjacency[rA][j]
           lastB == j = Len(adjacency[rA])
       IN  /\ mc_solver' = Append(mc_solver, NotEqual(rA, rB))
           /\ j' = IF lastB THEN 1 ELSE j + 1
           /\ i' = IF lastB THEN i + 1 ELSE i
           /\ pc' = IF lastB /\ i = Len(AdjacencyKeys) THEN "mc_check" ELSE "mc_pairwise"
    /\ UNCHANGED <<input, decl, ca_solver, nq_solver, s_solver, answer, lists, out>>

\* assert mc_solver.check() == sat
MC_Check ==
    /\ pc = "mc_check"
    /\ calls' = [calls EXCEPT !["mc"] = @ + 1]
    /\ IF gives_up
       THEN /\ result' = "unknown"
            /\ model' = <<>>
       ELSE LET ms == Models(mc_solver, decl)
            IN  \/ /\ ms = {}
                   /\ result' = "unsat"
                   /\ model' = <<>>
                \/ /\ ms # {}
                   /\ result' = "sat"
                   /\ model' \in ms
    /\ pc' = IF EqualsSat(result') THEN "mc_print" ELSE "error"
    /\ i' = IF EqualsSat(result') THEN 1 ELSE i
    /\ UNCHANGED <<input, j, decl, ca_solver, mc_solver, nq_solver, s_solver, lists, out>>

\* print("WA={}".format(colors[mc_solver.model()[WA].as_string()])) and
\* likewise NT, SA, Q, NSW, V, T; a value that is no key of colors raises.
MC_Print ==
    /\ pc = "mc_print"
    /\ LET key == ToString(model[PrintedRegions[i]])
       IN  IF key \in DOMAIN colors
           THEN /\ out' = Append(out, <<PrintedRegions[i], colors[key]>>)
                /\ i' = i + 1
                /\ pc' = IF i < Len(PrintedRegions) THEN "mc_print" ELSE "done"
           ELSE /\ pc' = "error"
                /\ UNCHANGED <<i, out>>
    /\ UNCHANGED <<input, j, decl, ca_solver, mc_solver, nq_solver, s_solver, answer, lists>>

MC_Next ==
    \/ MC_NewSolver
    \/ MC_Int
    \/ MC_Range
    \/ MC_PbEq
    \/ MC_Pairwise
    \/ MC_Check
    \/ MC_Print

(***************************************************************************)
(* III. N-Queens.                                                          *)
(***************************************************************************)
\* Python's abs on the column indices
abs(x) == IF x < 0 THEN 0 - x ELSE x

\* queens = [Int('Q{}'.format(i)) for i in range(N)]; queens(N)[k] is the
\* queen of column k - 1.
queens(N) == [k \in 1..N |-> "Q" \o ToString(k - 1)]

\* (0 <= q, q <= N): the upper bound off by one
QueenRanges_Inclusive(N) ==
    [t \in 1..(2 * N) |->
        IF t % 2 = 1 THEN LowerBound(0, queens(N)[(t + 1) \div 2])
        ELSE UpperBound(queens(N)[t \div 2], N)]

\* chain(*[(0 <= q, q < N) for q in queens])
QueenRanges(N) ==
    [t \in 1..(2 * N) |->
        IF t % 2 = 1 THEN LowerBound(0, queens(N)[(t + 1) \div 2])
        ELSE Less(queens(N)[t \div 2], N)]

\* The column distance off by one: Abs(q1 - q2) != abs(i - j) + 1
QueenDiagonals_OffByOne(N) ==
    [t \in 1..(N * (N - 1)) |->
        LET a == (t - 1) \div (N - 1)
            r == (t - 1) % (N - 1)
            b == IF r < a THEN r ELSE r + 1
        IN  AbsDiffNotEqual(queens(N)[a + 1], queens(N)[b + 1], abs(a - b) + 1)]

\* for i, q1 in enumerate(queens): for j, q2 in enumerate(queens):
\*     if i == j: continue
\*     nq_solver.add(Abs(q1 - q2) != abs(i - j))
QueenDiagonals(N) ==
    [t \in 1..(N * (N - 1)) |->
        LET a == (t - 1) \div (N - 1)
            r == (t - 1) % (N - 1)
            b == IF r < a THEN r ELSE r + 1
        IN  AbsDiffNotEqual(queens(N)[a + 1], queens(N)[b + 1], abs(a - b))]

\* def nqueens(N): the assertions of the solver it returns
nqueens(N) == QueenRanges(N) \o <<Distinct(queens(N))>> \o QueenDiagonals(N)

\* An assert passes when its argument is true as a Python object.  z3's
\* CheckSatResult defines neither __bool__ nor __len__, so each of its
\* values is true.
Truthy(r) == r \in {"sat", "unsat", "unknown"}

\* runtimes = []; solutions = []; sizes = [...]
NQ_Setup ==
    /\ pc = "nq_setup"
    /\ runtimes' = <<>>
    /\ solutions' = <<>>
    /\ i' = 1
    /\ pc' = "nq_for"
    /\ UNCHANGED <<input, j, decl, ca_solver, mc_solver, nq_solver, s_solver, answer, out>>

\* One solver kept for all sizes: each pass adds nqueens(N) to it.
NQ_For_ReusesSolver ==
    /\ pc = "nq_for"
    /\ IF i <= Len(sizes)
       THEN /\ nq_solver' = nq_solver \o nqueens(sizes[i])
            /\ decl' = decl \o SelectSeq(queens(sizes[i]), LAMBDA q : q \notin Range(decl))
            /\ pc' = "nq_check"
       ELSE /\ pc' = "done"
            /\ UNCHANGED <<nq_solver, decl>>
    /\ UNCHANGED <<input, i, j, ca_solver, mc_solver, s_solver, answer, lists, out>>

\* for N in sizes: nq_solver = nqueens(N); after the loop, plt.plot
NQ_For ==
    /\ pc = "nq_for"
    /\ IF i <= Len(sizes)
       THEN /\ nq_solver' = nqueens(sizes[i])
            /\ calls' = [calls EXCEPT !["nq"] = 0]
            /\ decl' = decl \o SelectSeq(queens(sizes[i]), LAMBDA q : q \notin Range(decl))
            /\ pc' = "nq_check"
       ELSE /\ pc' = "done"
            /\ UNCHANGED <<nq_solver, calls, decl>>
    /\ UNCHANGED <<input, i, j, ca_solver, mc_solver, s_solver, result, model, lists, out>>

\* start = ...; assert nq_solver.check(), "..."; end = ...
NQ_Check ==
    /\ pc = "nq_check"
    /\ calls' = [calls EXCEPT !["nq"] = @ + 1]
    /\ IF gives_up
       THEN /\ result' = "unknown"
            /\ model' = <<>>
       ELSE LET ms == Models(nq_solver, decl)
            IN  \/ /\ ms = {}
                   /\ result' = "unsat"
                   /\ model' = <<>>
                \/ /\ ms # {}
                   /\ result' = "sat"
                   /\ model' \in ms
    /\ pc' = IF Truthy(result') THEN "nq_print" ELSE "error"
    /\ UNCHANGED <<input, i, j, decl, ca_solver, mc_solver, nq_solver, s_solver, lists, out>>

\* print("{}-queens: {}ms".format(N, (end-start) * 1000))
NQ_Print ==
    /\ pc = "nq_print"
    /\ out' = Append(out, <<ToString(sizes[i]), "-queens">>)
    /\ pc' = "nq_runtimes"
    /\ UNCHANGED <<input, i, j, decl, ca_solver, mc_solver, nq_solver, s_solver, answer, lists>>

\* runtimes.append((end - start) * 1000); the size stands for its time
NQ_Runtimes ==
    /\ pc = "nq_runtimes"
    /\ runtimes' = Append(runtimes, sizes[i])
    /\ pc' = "nq_solutions"
    /\ UNCHANGED <<input, i, j, decl, ca_solver, mc_solver, nq_solver, s_solver, answer, solutions, out>>

\* solutions.append(nq_solver)
NQ_Solutions ==
    /\ pc = "nq_solutions"
    /\ solutions' = Append(solutions, nq_solver)
    /\ i' = i + 1
    /\ pc' = "nq_for"
    /\ UNCHANGED <<input, j, decl, ca_solver, mc_solver, nq_solver, s_solver, answer, runtimes, out>>

NQ_Next ==
    \/ NQ_Setup
    \/ NQ_For
    \/ NQ_Check
    \/ NQ_Print
    \/ NQ_Runtimes
    \/ NQ_Solutions

(***************************************************************************)
(* IV. Sudoku.  Rows and columns are numbered from 1 here and from 0 in    *)
(* the notebook.                                                           *)
(***************************************************************************)
\* rows = 'ABCDEFGHI'
rows == <<"A", "B", "C", "D", "E", "F", "G", "H", "I">>

\* cols = '123456789'
cols == <<"1", "2", "3", "4", "5", "6", "7", "8", "9">>

\* boxes = [[Int("{}{}".format(r, c)) for c in cols] for r in rows]
boxes == [r \in DOMAIN rows |-> [c \in DOMAIN cols |-> rows[r] \o cols[c]]]

\* chain(*boxes)
AllBoxes == [t \in 1..(Len(rows) * Len(cols)) |->
                boxes[((t - 1) \div Len(cols)) + 1][((t - 1) % Len(cols)) + 1]]

\* chain(*[(1 <= b, b <= 9) for b in chain(*boxes)])
BoxRanges ==
    [t \in 1..(2 * Len(AllBoxes)) |->
        IF t % 2 = 1 THEN LowerBound(1, AllBoxes[(t + 1) \div 2])
        ELSE UpperBound(AllBoxes[t \div 2], 9)]

\* [Distinct(row) for row in boxes]
RowsDistinct == [r \in DOMAIN boxes |-> Distinct(boxes[r])]

\* The columns cut short of the last row: zip(*boxes[:-1])
ColumnsDistinct_SkipsLastRow ==
    [c \in DOMAIN cols |-> Distinct([r \in 1..(Len(rows) - 1) |-> boxes[r][c]])]

\* [Distinct(col) for col in zip(*boxes)]
ColumnsDistinct ==
    [c \in DOMAIN cols |-> Distinct([r \in DOMAIN boxes |-> boxes[r][c]])]

\* [Distinct([boxes[i + ii][j + jj] for ii in range(3) for jj in range(3)])
\*  for j in range(0, 9, 3) for i in range(0, 9, 3)]
BlocksDistinct ==
    [t \in 1..9 |->
        LET bj == 3 * ((t - 1) \div 3)
            bi == 3 * ((t - 1) % 3)
        IN  Distinct([k \in 1..9 |->
                boxes[bi + ((k - 1) \div 3) + 1][bj + ((k - 1) % 3) + 1]])]

\* board = (...), the board of the notebook
NotebookBoard ==
    << <<0, 0, 3, 0, 2, 0, 6, 0, 0>>,
       <<9, 0, 0, 3, 0, 5, 0, 0, 1>>,
       <<0, 0, 1, 8, 0, 6, 4, 0, 0>>,
       <<0, 0, 8, 1, 0, 2, 9, 0, 0>>,
       <<7, 0, 0, 0, 0, 0, 0, 0, 8>>,
       <<0, 0, 6, 7, 0, 8, 2, 0, 0>>,
       <<0, 0, 2, 6, 0, 9, 5, 0, 0>>,
       <<8, 0, 0, 2, 0, 3, 0, 0, 9>>,
       <<0, 0, 5, 0, 1, 0, 3, 0, 0>> >>

\* The boards the section is run on: the notebook's, which has one
\* solution, and the same board without the given of box I5, which has two.
SolvedBoards == {NotebookBoard, [NotebookBoard EXCEPT ![9][5] = 0]}

\* The filter on board[i][j] != 0 left out.
Givens_Unfiltered(b) ==
    [t \in 1..81 |->
        EqualConst(boxes[((t - 1) \div 9) + 1][((t - 1) % 9) + 1],
                   b[((t - 1) \div 9) + 1][((t - 1) % 9) + 1])]

\* The given of the first row's seventh box left out.
Givens_SkipsA7(b) ==
    LET at(t) == <<((t - 1) \div 9) + 1, ((t - 1) % 9) + 1>>
        kept == SelectSeq([t \in 1..81 |-> t],
                          LAMBDA t : b[at(t)[1]][at(t)[2]] # 0 /\ t # 7)
    IN  [n \in DOMAIN kept |->
            EqualConst(boxes[at(kept[n])[1]][at(kept[n])[2]],
                       b[at(kept[n])[1]][at(kept[n])[2]])]

\* range(8) for the rows: the givens of the last row left out.
Givens_SkipsLastRow(b) ==
    LET at(t) == <<((t - 1) \div 9) + 1, ((t - 1) % 9) + 1>>
        kept == SelectSeq([t \in 1..72 |-> t],
                          LAMBDA t : b[at(t)[1]][at(t)[2]] # 0)
    IN  [n \in DOMAIN kept |->
            EqualConst(boxes[at(kept[n])[1]][at(kept[n])[2]],
                       b[at(kept[n])[1]][at(kept[n])[2]])]

\* [boxes[i][j] == board[i][j] for i in range(9) for j in range(9)
\*  if board[i][j] != 0]
Givens(b) ==
    LET at(t) == <<((t - 1) \div 9) + 1, ((t - 1) % 9) + 1>>
        kept == SelectSeq([t \in 1..81 |-> t],
                          LAMBDA t : b[at(t)[1]][at(t)[2]] # 0)
    IN  [n \in DOMAIN kept |->
            EqualConst(boxes[at(kept[n])[1]][at(kept[n])[2]],
                       b[at(kept[n])[1]][at(kept[n])[2]])]

\* rows = ...; cols = ...; boxes = ...; s_solver = Solver()
SU_NewSolver ==
    /\ pc = "su_new"
    /\ decl' = decl \o AllBoxes
    /\ s_solver' = <<>>
    /\ calls' = [calls EXCEPT !["su"] = 0]
    /\ pc' = "su_ranges"
    /\ UNCHANGED <<input, i, j, ca_solver, mc_solver, nq_solver, result, model, lists, out>>

\* s_solver.add(*chain(*[(1 <= b, b <= 9) for b in chain(*boxes)]))
SU_Ranges ==
    /\ pc = "su_ranges"
    /\ s_solver' = s_solver \o BoxRanges
    /\ pc' = "su_rows"
    /\ UNCHANGED <<input, i, j, decl, ca_solver, mc_solver, nq_solver, answer, lists, out>>

\* s_solver.add(*[Distinct(row) for row in boxes])
SU_Rows ==
    /\ pc = "su_rows"
    /\ s_solver' = s_solver \o RowsDistinct
    /\ pc' = "su_columns"
    /\ UNCHANGED <<input, i, j, decl, ca_solver, mc_solver, nq_solver, answer, lists, out>>

\* s_solver.add(*[Distinct(col) for col in zip(*boxes)])
SU_Columns ==
    /\ pc = "su_columns"
    /\ s_solver' = s_solver \o ColumnsDistinct
    /\ pc' = "su_blocks"
    /\ UNCHANGED <<input, i, j, decl, ca_solver, mc_solver, nq_solver, answer, lists, out>>

\* s_solver.add(*[Distinct([...]) for j in range(0, 9, 3) for i in range(0, 9, 3)])
SU_Blocks ==
    /\ pc = "su_blocks"
    /\ s_solver' = s_solver \o BlocksDistinct
    /\ pc' = "su_givens"
    /\ UNCHANGED <<input, i, j, decl, ca_solver, mc_solver, nq_solver, answer, lists, out>>

\* s_solver.add(*[boxes[i][j] == board[i][j] ... if board[i][j] != 0])
SU_Givens ==
    /\ pc = "su_givens"
    /\ s_solver' = s_solver \o Givens(board)
    /\ pc' = "su_check"
    /\ UNCHANGED <<input, i, j, decl, ca_solver, mc_solver, nq_solver, answer, lists, out>>

\* assert s_solver.check() == sat
SU_Check ==
    /\ pc = "su_check"
    /\ calls' = [calls EXCEPT !["su"] = @ + 1]
    /\ IF gives_up
       THEN /\ result' = "unknown"
            /\ model' = <<>>
       ELSE LET ms == Models(s_solver, decl)
            IN  \/ /\ ms = {}
                   /\ result' = "unsat"
                   /\ model' = <<>>
                \/ /\ ms # {}
                   /\ result' = "sat"
                   /\ model' \in ms
    /\ pc' = IF EqualsSat(result') THEN "su_print" ELSE "error"
    /\ i' = IF EqualsSat(result') THEN 1 ELSE i
    /\ j' = IF EqualsSat(result') THEN 1 ELSE j
    /\ UNCHANGED <<input, decl, ca_solver, mc_solver, nq_solver, s_solver, lists, out>>

\* print('-'*9+"|"+'-'*9+"|"+'-'*9)
Rule == <<"---------|---------|---------">>

\* One pass of the inner loop for the box of row i, column j: before the
\* first box of a row the rule if row and row % 3 == 0; the bar if col and
\* col % 3 == 0; the box's value; after the last box of a row, print().
SU_Print ==
    /\ pc = "su_print"
    /\ LET row == i - 1
           col == j - 1
           ruled == IF col = 0 /\ row # 0 /\ row % 3 = 0 THEN Append(out, Rule) ELSE out
           lines == IF col = 0 THEN Append(ruled, <<>>) ELSE ruled
           bar == IF col # 0 /\ col % 3 = 0 THEN <<"|">> ELSE <<>>
           last == Len(lines)
       IN  out' = [lines EXCEPT ![last] = lines[last] \o bar \o
                                          <<ToString(model[boxes[i][j]])>>]
    /\ j' = IF j < Len(cols) THEN j + 1 ELSE 1
    /\ i' = IF j < Len(cols) THEN i ELSE i + 1
    /\ pc' = IF j = Len(cols) /\ i = Len(rows) THEN "done" ELSE "su_print"
    /\ UNCHANGED <<input, decl, ca_solver, mc_solver, nq_solver, s_solver, answer, lists>>

SU_Build ==
    \/ SU_NewSolver
    \/ SU_Ranges
    \/ SU_Rows
    \/ SU_Columns
    \/ SU_Blocks
    \/ SU_Givens

SU_Next ==
    \/ SU_Build
    \/ SU_Check
    \/ SU_Print

(***************************************************************************)
(* The notebook.                                                           *)
(***************************************************************************)
NoBoard == <<>>

\* No solver has been asked anything.
NoCalls == [p \in {"ca", "mc", "nq", "su"} |-> 0]

Init ==
    /\ \/ puzzle = "ca" /\ enc \in {"monolithic", "decomposed"} /\ pc = "ca_new"
       \/ puzzle = "mc" /\ enc \in {"pbeq", "pairwise", "both"} /\ pc = "mc_new"
       \/ puzzle = "nq" /\ enc = "only" /\ pc = "nq_setup"
       \/ puzzle = "su" /\ enc = "only" /\ pc = "su_new"
    /\ sizes \in IF puzzle = "nq" THEN {<<n>> : n \in 1..MaxN} ELSE {<<>>}
    /\ board \in IF puzzle = "su" THEN SolvedBoards ELSE {NoBoard}
    /\ gives_up = FALSE
    /\ todo = <<>>
    /\ perm = <<>>
    /\ i = 0
    /\ j = 0
    /\ decl = <<>>
    /\ ca_solver = <<>>
    /\ mc_solver = <<>>
    /\ nq_solver = <<>>
    /\ s_solver = <<>>
    /\ result = "none"
    /\ model = <<>>
    /\ calls = NoCalls
    /\ runtimes = <<>>
    /\ solutions = <<>>
    /\ out = <<>>

Next ==
    \/ CA_Next
    \/ MC_Next
    \/ NQ_Next
    \/ SU_Next

Spec == Init /\ [][Next]_vars

(***************************************************************************)
(* The builder of the Sudoku givens on other boards: the notebook's board  *)
(* with any one box overwritten by any entry 0..9.                         *)
(***************************************************************************)
EditedBoards ==
    {NotebookBoard} \cup
    {[NotebookBoard EXCEPT ![r][c] = v] : r \in 1..9, c \in 1..9, v \in 0..9}

InitBoard ==
    /\ puzzle = "su"
    /\ enc = "only"
    /\ pc = "su_new"
    /\ sizes = <<>>
    /\ board \in EditedBoards
    /\ gives_up = FALSE
    /\ todo = <<>>
    /\ perm = <<>>
    /\ i = 0
    /\ j = 0
    /\ decl = <<>>
    /\ ca_solver = <<>>
    /\ mc_solver = <<>>
    /\ nq_solver = <<>>
    /\ s_solver = <<>>
    /\ result = "none"
    /\ model = <<>>
    /\ calls = NoCalls
    /\ runtimes = <<>>
    /\ solutions = <<>>
    /\ out = <<>>

NextBoard ==
    \/ SU_NewSolver
    \/ SU_Ranges
    \/ SU_Rows
    \/ SU_Columns
    \/ SU_Blocks
    \/ SU_Givens

SpecBoard == InitBoard /\ [][NextBoard]_vars

(***************************************************************************)
(* The notebook with every result check() can give: the solver may end its *)
(* search without an answer, the Sudoku board may be one that no grid      *)
(* completes, and the N-Queens loop may run over two sizes.                *)
(***************************************************************************)
\* The largest size in a list of two sizes.
SmallN == 4

\* The notebook's board with a second 3 written into row A.
ConflictingBoard == [NotebookBoard EXCEPT ![1][1] = 3]

\* The lists of sizes the loop is run on.
SizeLists == {<<n>> : n \in 1..MaxN} \cup {<<a, b>> : a \in 1..SmallN, b \in 1..SmallN}

InitAnyResult ==
    /\ \/ puzzle = "ca" /\ enc \in {"monolithic", "decomposed"} /\ pc = "ca_new"
       \/ puzzle = "mc" /\ enc \in {"pbeq", "pairwise", "both"} /\ pc = "mc_new"
       \/ puzzle = "nq" /\ enc = "only" /\ pc = "nq_setup"
       \/ puzzle = "su" /\ enc = "only" /\ pc = "su_new"
    /\ sizes \in IF puzzle = "nq" THEN SizeLists ELSE {<<>>}
    /\ board \in IF puzzle = "su" THEN SolvedBoards \cup {ConflictingBoard} ELSE {NoBoard}
    /\ gives_up \in BOOLEAN
    /\ todo = <<>>
    /\ perm = <<>>
    /\ i = 0
    /\ j = 0
    /\ decl = <<>>
    /\ ca_solver = <<>>
    /\ mc_solver = <<>>
    /\ nq_solver = <<>>
    /\ s_solver = <<>>
    /\ result = "none"
    /\ model = <<>>
    /\ calls = NoCalls
    /\ runtimes = <<>>
    /\ solutions = <<>>
    /\ out = <<>>

SpecAnyResult == InitAnyResult /\ [][Next]_vars

(***************************************************************************)
(* The notebook run section after section: up to MaxSections of the four   *)
(* sections, each once, in any order, in one kernel.  The names the        *)
(* sections bind (T in sections I and II) and the variables they declare   *)
(* stay; each section has its own solver.                                  *)
(***************************************************************************)
\* The most sections in one run.
MaxSections == 2

Sections == {"ca", "mc", "nq", "su"}

\* The runs: lists of different sections.
SectionLists ==
    {s \in UNION {[1..n -> Sections] : n \in 1..MaxSections} :
        \A a \in DOMAIN s : \A b \in DOMAIN s : a # b => s[a] # s[b]}

\* The encoding cells of section p that running every code cell executes:
\* the one equation of section I, both constraint cells of section II.
RunAll(p) ==
    CASE p = "ca" -> "monolithic"
      [] p = "mc" -> "both"
      [] OTHER -> "only"

\* The first statement of section p.
Start(p) ==
    CASE p = "ca" -> "ca_new"
      [] p = "mc" -> "mc_new"
      [] p = "nq" -> "nq_setup"
      [] p = "su" -> "su_new"

InitNotebook ==
    /\ \E s \in SectionLists :
          /\ puzzle = s[1]
          /\ todo = Tail(s)
    /\ enc = RunAll(puzzle)
    /\ pc = Start(puzzle)
    /\ sizes = <<SmallN>>
    /\ board = NotebookBoard
    /\ gives_up = FALSE
    /\ perm = <<>>
    /\ i = 0
    /\ j = 0
    /\ decl = <<>>
    /\ ca_solver = <<>>
    /\ mc_solver = <<>>
    /\ nq_solver = <<>>
    /\ s_solver = <<>>
    /\ result = "none"
    /\ model = <<>>
    /\ calls = NoCalls
    /\ runtimes = <<>>
    /\ solutions = <<>>
    /\ out = <<>>

\* The last cell of a section has run: the next section's first cell runs.
NB_NextSection ==
    /\ pc = "done"
    /\ todo # <<>>
    /\ puzzle' = Head(todo)
    /\ todo' = Tail(todo)
    /\ enc' = RunAll(puzzle')
    /\ pc' = Start(puzzle')
    /\ UNCHANGED <<sizes, board, gives_up, perm, i, j, decl, ca_solver, mc_solver,
                   nq_solver, s_solver, answer, lists, out>>

NextNotebook ==
    \/ CA_Next
    \/ MC_Next
    \/ NQ_Next
    \/ SU_Next
    \/ NB_NextSection

SpecNotebook == InitNotebook /\ [][NextNotebook]_vars

(***************************************************************************)
(* A section with its add statements in another order.  The variables are  *)
(* declared first (an add names them), then the statements run in the      *)
(* order perm, then the section's check and rendering as written.          *)
(***************************************************************************)
\* The assertions of section p's solver, one sequence per add statement, in
\* the order of the notebook.
Adds(p) ==
    CASE p = "ca" ->
            [k \in DOMAIN Letters |-> LetterRange(Letters[k])]
            \o <<LeadingDigits, AllLettersDistinct, Monolithic>>
      [] p = "mc" ->
            [k \in DOMAIN Regions |-> RegionRange(Regions[k])]
            \o [k \in DOMAIN PbEqStatements |-> <<PbEqStatements[k]>>]
            \o [k \in 1..2 |-> <<PairwiseOf(1)[k]>>]
            \o [k \in 1..3 |-> <<PairwiseOf(2)[k]>>]
            \o [k \in 1..5 |-> <<PairwiseOf(3)[k]>>]
            \o [k \in 1..3 |-> <<PairwiseOf(4)[k]>>]
            \o [k \in 1..3 |-> <<PairwiseOf(5)[k]>>]
            \o [k \in 1..2 |-> <<PairwiseOf(6)[k]>>]
      [] p = "su" ->
            <<BoxRanges, RowsDistinct, ColumnsDistinct, BlocksDistinct, Givens(board)>>

\* The orders of n statements that are tried: the notebook's order started
\* at any statement and wrapped around, forwards and backwards.
Orders(n) ==
    {[k \in 1..n |-> ((k + r - 1) % n) + 1] : r \in 0..(n - 1)} \cup
    {[k \in 1..n |-> ((n - k + r) % n) + 1] : r \in 0..(n - 1)}

InitOrder ==
    /\ puzzle \in {"ca", "mc", "su"}
    /\ enc = RunAll(puzzle)
    /\ board \in IF puzzle = "su" THEN {NotebookBoard, ConflictingBoard} ELSE {NoBoard}
    /\ perm \in Orders(Len(Adds(puzzle)))
    /\ pc = "or_declare"
    /\ sizes = <<>>
    /\ gives_up = FALSE
    /\ todo = <<>>
    /\ i = 0
    /\ j = 0
    /\ decl = <<>>
    /\ ca_solver = <<>>
    /\ mc_solver = <<>>
    /\ nq_solver = <<>>
    /\ s_solver = <<>>
    /\ result = "none"
    /\ model = <<>>
    /\ calls = NoCalls
    /\ runtimes = <<>>
    /\ solutions = <<>>
    /\ out = <<>>

\* solver = Solver() and every X = Int('X') of the section
OR_Declare ==
    /\ pc = "or_declare"
    /\ decl' = CASE puzzle = "ca" -> Letters
                 [] puzzle = "mc" -> Regions
                 [] puzzle = "su" -> AllBoxes
    /\ i' = 1
    /\ pc' = "or_add"
    /\ UNCHANGED <<input, j, ca_solver, mc_solver, nq_solver, s_solver, answer, lists, out>>

\* Each add replaces what the solver held.
OR_Add_Overwrites ==
    /\ pc = "or_add"
    /\ ca_solver' = IF puzzle = "ca" THEN Adds(puzzle)[perm[i]] ELSE ca_solver
    /\ mc_solver' = IF puzzle = "mc" THEN Adds(puzzle)[perm[i]] ELSE mc_solver
    /\ s_solver' = IF puzzle = "su" THEN Adds(puzzle)[perm[i]] ELSE s_solver
    /\ i' = i + 1
    /\ pc' = IF i < Len(perm) THEN "or_add"
             ELSE CASE puzzle = "ca" -> "ca_check"
                    [] puzzle = "mc" -> "mc_check"
                    [] puzzle = "su" -> "su_check"
    /\ UNCHANGED <<input, j, decl, nq_solver, answer, lists, out>>

\* The add statement that is perm[i]-th in the notebook
OR_Add ==
    /\ pc = "or_add"
    /\ ca_solver' = IF puzzle = "ca" THEN ca_solver \o Adds(puzzle)[perm[i]] ELSE ca_solver
    /\ mc_solver' = IF puzzle = "mc" THEN mc_solver \o Adds(puzzle)[perm[i]] ELSE mc_solver
    /\ s_solver' = IF puzzle = "su" THEN s_solver \o Adds(puzzle)[perm[i]] ELSE s_solver
    /\ i' = i + 1
    /\ pc' = IF i < Len(perm) THEN "or_add"
             ELSE CASE puzzle = "ca" -> "ca_check"
                    [] puzzle = "mc" -> "mc_check"
                    [] puzzle = "su" -> "su_check"
    /\ UNCHANGED <<input, j, decl, nq_solver, answer, lists, out>>

NextOrder ==
    \/ OR_Declare
    \/ OR_Add
    \/ CA_Check
    \/ CA_Print
    \/ MC_Check
    \/ MC_Print
    \/ SU_Check
    \/ SU_Print

SpecOrder == InitOrder /\ [][NextOrder]_vars

(***************************************************************************)
(* Properties.                                                             *)
(***************************************************************************)
\* The statement after check() has been reached in a section whose check
\* returned sat: model is the model the solver holds.
Solved(p) == puzzle = p /\ result = "sat"

\* C1: every model of the constraints the notebook gives ca_solver has its
\* six letters in 0..9 and pairwise distinct, F and T non-zero, and
\* 2 * TWO = FOUR in base 10.
C1_CryptarithmeticModels ==
    (Solved("ca") /\ enc = "monolithic") =>
        /\ \A x \in {"F", "O", "R", "T", "U", "W"} : model[x] \in 0..9
        /\ \A x \in {"F", "O", "R", "T", "U", "W"} :
              \A y \in {"F", "O", "R", "T", "U", "W"} : x # y => model[x] # model[y]
        /\ model["F"] # 0
        /\ model["T"] # 0
        /\ 2 * (100 * model["T"] + 10 * model["W"] + model["O"])
              = 1000 * model["F"] + 100 * model["O"] + 10 * model["U"] + model["R"]

\* The recorded run's model, 867 + 867 = 1734, has been returned.
C1_Witness ==
    /\ Solved("ca") /\ enc = "monolithic"
    /\ model["T"] = 8 /\ model["W"] = 6 /\ model["O"] = 7
    /\ model["F"] = 1 /\ model["U"] = 3 /\ model["R"] = 4

\* C2: every model of mc_solver colors each of the seven regions 0..2 and
\* gives the two regions of every pair of the adjacency table different
\* colors.
C2_MapColoringModels ==
    Solved("mc") =>
        /\ \A x \in {"WA", "SA", "NT", "Q", "NSW", "V", "T"} : model[x] \in 0..2
        /\ \A a \in DOMAIN adjacency : \A k \in DOMAIN adjacency[a] :
              model[a] # model[adjacency[a][k]]

\* The recorded coloring has been returned (with the PbEq cell alone, as run).
C2_Witness ==
    /\ Solved("mc") /\ enc = "pbeq"
    /\ model["WA"] = 1 /\ model["NT"] = 2 /\ model["SA"] = 0 /\ model["Q"] = 1
    /\ model["NSW"] = 2 /\ model["V"] = 1 /\ model["T"] = 0

\* The N-Queens loop is between check() and the next size: model belongs to
\* nqueens(sizes[i]).
QueensChecked == puzzle = "nq" /\ pc \in {"nq_print", "nq_runtimes", "nq_solutions"}

\* The row of the queen of column a (counted from 0) in the model.
RowOf(a) == model["Q" \o ToString(a)]

\* C3: every model of nqueens(N), for each N up to MaxN and so for N = 8,
\* puts the N queens on rows 0..N-1, no two on one row and no two on one
\* diagonal.
C3_QueensModels ==
    (QueensChecked /\ result = "sat") =>
        LET n == sizes[i]
        IN  /\ \A a \in 0..(n - 1) : RowOf(a) \in 0..(n - 1)
            /\ \A a \in 0..(n - 1) : \A b \in 0..(n - 1) :
                  a < b => /\ RowOf(a) # RowOf(b)
                           /\ RowOf(a) - RowOf(b) # b - a
                           /\ RowOf(b) - RowOf(a) # b - a

\* A placement of eight queens has been returned.
C3_Witness == QueensChecked /\ result = "sat" /\ sizes[i] = 8 /\ RowOf(0) = 3

\* The value of the box of row r, column c (counted from 1) in the model.
BoxOf(r, c) == model[boxes[r][c]]

\* C4: every model of s_solver fills the 81 boxes with 1..9, with no value
\* twice in a row, in a column or in one of the nine aligned 3x3 blocks,
\* and with every non-zero entry of board in its box.
C4_SudokuModels ==
    Solved("su") =>
        /\ \A r \in 1..9 : \A c \in 1..9 : BoxOf(r, c) \in 1..9
        /\ \A r \in 1..9 : \A c \in 1..9 : \A d \in 1..9 :
              c # d => BoxOf(r, c) # BoxOf(r, d) /\ BoxOf(c, r) # BoxOf(d, r)
        /\ \A r \in 1..9 : \A c \in 1..9 : \A q \in 1..9 : \A d \in 1..9 :
              ( /\ <<r, c>> # <<q, d>>
                /\ (r - 1) \div 3 = (q - 1) \div 3
                /\ (c - 1) \div 3 = (d - 1) \div 3 ) => BoxOf(r, c) # BoxOf(q, d)
        /\ \A r \in 1..9 : \A c \in 1..9 :
              board[r][c] # 0 => BoxOf(r, c) = board[r][c]

\* A solved grid other than the recorded one is being rendered, for the
\* board whose box I5 is blank.
C4_Witness == Solved("su") /\ pc = "su_print" /\ board[9][5] = 0 /\ BoxOf(9, 5) # 1

\* The grid the notebook records as the output of its run.
RecordedGrid ==
    << <<4, 8, 3, 9, 2, 1, 6, 5, 7>>,
       <<9, 6, 7, 3, 4, 5, 8, 2, 1>>,
       <<2, 5, 1, 8, 7, 6, 4, 9, 3>>,
       <<5, 4, 8, 1, 3, 2, 9, 7, 6>>,
       <<7, 2, 9, 5, 6, 4, 1, 3, 8>>,
       <<1, 3, 6, 7, 9, 8, 2, 4, 5>>,
       <<3, 7, 2, 6, 8, 9, 5, 1, 4>>,
       <<8, 1, 4, 2, 5, 3, 7, 6, 9>>,
       <<6, 9, 5, 4, 1, 7, 3, 8, 2>> >>

\* C5: the constraints built from the notebook's board have one model, the
\* recorded grid: the check answers sat, whatever model it returns is that
\* grid, and the first line rendered is 4 8 3 | 9 2 1 | 6 5 7.
C5_SudokuUnique ==
    (puzzle = "su" /\ board = NotebookBoard /\ pc \in {"su_print", "done", "error"}) =>
        /\ result = "sat"
        /\ \A r \in 1..9 : \A c \in 1..9 : BoxOf(r, c) = RecordedGrid[r][c]
        /\ pc = "done" =>
              out[1] = <<"4", "8", "3", "|", "9", "2", "1", "|", "6", "5", "7">>

\* The run has rendered the whole grid.
C5_Witness ==
    puzzle = "su" /\ board = NotebookBoard /\ pc = "done" /\ Len(out) = 11 /\ BoxOf(1, 1) = 4

\* C6: nqueens(2) and nqueens(3) are unsatisfiable, and nqueens(N) is
\* satisfiable for every N from 4 up to MaxN.
C6_QueensFeasibility ==
    QueensChecked =>
        /\ sizes[i] \in {2, 3} => result = "unsat"
        /\ sizes[i] >= 4 => result = "sat"

\* The check of a 3x3 board has answered unsat.
C6_Witness == QueensChecked /\ sizes[i] = 3 /\ result = "unsat"

\* The instances whose check the notebook asserts to be sat: the
\* cryptarithmetic as coded, the map with both encodings added, the Sudoku.
AssertedSat ==
    \/ puzzle = "ca" /\ enc = "monolithic"
    \/ puzzle = "mc" /\ enc = "both"
    \/ puzzle = "su" /\ board = NotebookBoard

\* C7: each of these three instances is satisfiable, so its assertion on
\* check() == sat passes.
C7_AssertedInstancesSat ==
    (AssertedSat /\ pc \in {"ca_print", "mc_print", "su_print", "done", "error"}) =>
        result = "sat"

\* The map with both encodings in one solver has been checked and printed.
C7_Witness == puzzle = "mc" /\ enc = "both" /\ pc = "done" /\ Len(mc_solver) = 38

\* The assertions of ca_solver other than the arithmetic: its first 15.
CA_Common == SubSeq(ca_solver, 1, 15)

\* C8: the monolithic and the decomposed encoding admit the same assignments
\* to F, O, R, T, U, W: every model of the one satisfies the other's
\* constraints (for the decomposed one, with some value of each carry).
C8_EncodingsAgree ==
    Solved("ca") =>
        /\ enc = "monolithic" =>
              \E c1 \in Cand : \E c2 \in Cand : \E c3 \in Cand :
                  Satisfies(model @@ ("c1" :> c1) @@ ("c2" :> c2) @@ ("c3" :> c3),
                            CA_Common \o Decomposed)
        /\ enc = "decomposed" =>
              Satisfies([x \in Range(Letters) |-> model[x]], CA_Common \o Monolithic)

\* A model of the decomposed encoding that carries out of the units column.
C8_Witness == Solved("ca") /\ enc = "decomposed" /\ model["c1"] = 1 /\ model["T"] = 9

\* No two adjacent regions share a color under a.
NoAdjacentShare(a) ==
    \A x \in DOMAIN adjacency : \A k \in DOMAIN adjacency[x] : a[x] # a[adjacency[x][k]]

\* C9: over colors 0..2 the PbEq constraints alone, the pairwise
\* inequalities alone, and both together accept exactly the assignments in
\* which no adjacent pair shares a color.
C9_MapEncodingsAgree ==
    (puzzle = "mc" /\ pc = "mc_check") =>
        \A a \in [Range(Regions) -> 0..2] : Satisfies(a, mc_solver) <=> NoAdjacentShare(a)

\* The solver holds the pairwise inequalities alone, all 18 of them.
C9_Witness == puzzle = "mc" /\ pc = "mc_check" /\ enc = "pairwise" /\ Len(mc_solver) = 32

\* The fixed-value constraints of s_solver, as <<box, value>>.
FixedValues == {<<s_solver[n].xs[1], s_solver[n].ks[1]>> :
                   n \in {k \in DOMAIN s_solver : s_solver[k].op = "eqc"}}

\* C10: for every board the builder submits box == board[i][j] for exactly
\* the boxes with a non-zero entry, once each, and never box == 0.
C10_GivensOnlyNonZero ==
    (puzzle = "su" /\ pc = "su_check") =>
        /\ FixedValues =
              {<<boxes[p[1]][p[2]], board[p[1]][p[2]]>> :
                  p \in {q \in (1..9) \X (1..9) : board[q[1]][q[2]] # 0}}
        /\ \A r \in 1..9 : \A c \in 1..9 :
              Cardinality({n \in DOMAIN s_solver :
                              s_solver[n].op = "eqc" /\ s_solver[n].xs[1] = boxes[r][c]})
                 = IF board[r][c] # 0 THEN 1 ELSE 0
        /\ \A p \in FixedValues : p[2] # 0

\* A board with a given written into its blank first box has been built.
C10_Witness == puzzle = "su" /\ pc = "su_check" /\ board[1][1] = 5 /\ Len(s_solver) = 222

\* The sections that assert check() == sat before they render.
Rendering == puzzle \in {"ca", "mc", "su"}

\* C11: in the cryptarithmetic, map and Sudoku sections a line is printed
\* (and so a model looked up) only after the section's check() returned sat;
\* after unsat or unknown the run is stopped by the assert with nothing
\* printed.
C11_RenderAfterSat ==
    /\ [](Rendering =>
            /\ (pc \in {"ca_print", "mc_print", "su_print"} \/ out # <<>>) =>
                  (result = "sat" /\ calls[puzzle] = 1 /\ model # <<>>)
            /\ result \in {"unsat", "unknown"} => (pc = "error" /\ out = <<>>))
    /\ [][(Rendering /\ out' # out) => (result = "sat" /\ model' = model)]_vars

\* The check of the board with two 3s in a row has answered unsat and the
\* run has stopped.
C11_Witness ==
    /\ puzzle = "su" /\ board = ConflictingBoard /\ gives_up = FALSE
    /\ result = "unsat" /\ pc = "error" /\ calls["su"] = 1

\* The assertions of the solver of section p.
SolverOf(p) ==
    CASE p = "ca" -> ca_solver
      [] p = "mc" -> mc_solver
      [] p = "nq" -> nq_solver
      [] p = "su" -> s_solver

\* The current solver of the running section has had its check() call: the
\* statement after a check, the end of the run, or the top of the N-Queens
\* loop after a pass.
Asked ==
    \/ pc \in {"ca_print", "mc_print", "su_print", "done", "error"}
    \/ pc \in {"nq_print", "nq_runtimes", "nq_solutions"}
    \/ pc = "nq_for" /\ i > 1

\* The state of the running section's instance: Unsolved until its check()
\* call, then what the call answered.
Lifecycle ==
    IF calls[puzzle] = 0 THEN "Unsolved"
    ELSE CASE result = "sat" -> "Solved"
           [] result = "unsat" -> "Infeasible"
           [] result = "unknown" -> "TimedOut"
           [] OTHER -> "Unsolved"

\* C12: every solver, each nqueens(N) of the loop included, is Unsolved
\* while its constraints are added, gets one check() call, which moves it to
\* Solved, Infeasible or TimedOut, and after that call gets no constraint,
\* no other call and no other answer; the loop keeps one checked solver per
\* size.
C12_OneShot ==
    /\ [](/\ calls[puzzle] = (IF Asked THEN 1 ELSE 0)
          /\ Lifecycle = "Unsolved" <=> ~Asked
          /\ (puzzle = "nq" /\ pc = "done") => Len(solutions) = Len(sizes))
    /\ [][/\ (calls[puzzle] = 1 /\ calls'[puzzle] = 1) =>
                 /\ SolverOf(puzzle)' = SolverOf(puzzle)
                 /\ result' = result
                 /\ model' = model
          /\ calls'[puzzle] > calls[puzzle] =>
                 /\ Lifecycle = "Unsolved"
                 /\ Lifecycle' \in {"Solved", "Infeasible", "TimedOut"}
                 /\ SolverOf(puzzle)' = SolverOf(puzzle)
          /\ SolverOf(puzzle)' # SolverOf(puzzle) => calls'[puzzle] = 0]_vars

\* The loop over sizes 4 and 3 has kept the solver of the first and has
\* the second's answer, unsat.
C12_Witness ==
    /\ puzzle = "nq" /\ sizes = <<4, 3>> /\ pc = "nq_runtimes" /\ i = 2
    /\ Len(solutions) = 1 /\ calls["nq"] = 1 /\ Lifecycle = "Infeasible"

\* C13: when check() of nqueens(N) answers anything but sat, the assert
\* stops the loop there: the size is not printed, its time is not recorded
\* and its solver is not kept.
C13_InfeasibleSizeStops ==
    (puzzle = "nq" /\ result \in {"unsat", "unknown"}) =>
        /\ pc = "error"
        /\ Len(out) = i - 1
        /\ Len(runtimes) = i - 1
        /\ Len(solutions) = i - 1

\* The assertions section p submits when it is the only section run, with
\* every code cell executed.
Built(p) ==
    CASE p = "ca" ->
            [t \in 1..(2 * Len(Letters)) |->
                LetterRange(Letters[(t + 1) \div 2])[((t + 1) % 2) + 1]]
            \o LeadingDigits \o AllLettersDistinct \o Monolithic
      [] p = "mc" ->
            [t \in 1..(2 * Len(Regions)) |->
                RegionRange(Regions[(t + 1) \div 2])[((t + 1) % 2) + 1]]
            \o PbEqStatements
            \o PairwiseOf(1) \o PairwiseOf(2) \o PairwiseOf(3)
            \o PairwiseOf(4) \o PairwiseOf(5) \o PairwiseOf(6)
      [] p = "nq" -> nqueens(sizes[Len(sizes)])
      [] p = "su" ->
            BoxRanges \o RowsDistinct \o ColumnsDistinct \o BlocksDistinct
            \o Givens(board)

\* The variables section p declares.
Declared(p) ==
    CASE p = "ca" -> Letters
      [] p = "mc" -> Regions
      [] p = "nq" -> queens(sizes[Len(sizes)])
      [] p = "su" -> AllBoxes

\* Section p has created its solver and is not the running section, or is
\* the running section about to call check().
Complete(p) ==
    /\ SolverOf(p) # <<>>
    /\ p = puzzle => pc \in {"ca_check", "mc_check", "nq_check", "su_check"}

\* C14: whatever sections ran before and whatever section is running, a
\* step of one section changes no other section's solver; a solver holds
\* the first so many, and once complete all, of the assertions its section
\* submits when run alone, and
\* (for the letters, the regions and the queens) has the models it has when
\* run alone; some model of the map has T = 0 and some model of the
\* cryptarithmetic has T > 2; the Sudoku's model is the recorded grid.
C14_SectionsIndependent ==
    /\ [](\A p \in Sections :
            /\ Len(SolverOf(p)) <= Len(Built(p))
            /\ SolverOf(p) = SubSeq(Built(p), 1, Len(SolverOf(p)))
            /\ Complete(p) => SolverOf(p) = Built(p)
            /\ (Complete(p) /\ p # "su" /\
                   pc \in {"ca_check", "mc_check", "nq_check", "su_check"}) =>
                  LET ms == Models(SolverOf(p), decl)
                  IN  /\ ms = Models(Built(p), Declared(p))
                      /\ p = "mc" => \E m \in ms : m["T"] = 0
                      /\ p = "ca" => \E m \in ms : m["T"] > 2
            /\ (p = "su" /\ puzzle = p /\ Asked) =>
                  /\ result = "sat"
                  /\ \A r \in 1..9 : \A c \in 1..9 : BoxOf(r, c) = RecordedGrid[r][c])
    /\ [][\A p \in Sections :
             (p # puzzle \/ puzzle' # puzzle) => SolverOf(p)' = SolverOf(p)]_vars

\* The map has been colored with T = 0 after the cryptarithmetic, which
\* keeps T in 1..9, was built and solved.
C14_Witness ==
    /\ puzzle = "mc" /\ todo = <<>> /\ pc = "done"
    /\ ca_solver = Built("ca") /\ calls["ca"] = 1
    /\ result = "sat" /\ model["T"] = 0

\* The least and the greatest value of a variable of the running section:
\* a digit, a color, a row of the board of the current size, a Sudoku value.
Least == IF puzzle = "su" THEN 1 ELSE 0

Greatest ==
    CASE puzzle = "ca" -> 9
      [] puzzle = "mc" -> 2
      [] puzzle = "nq" -> sizes[i] - 1
      [] puzzle = "su" -> 9

\* C15: when a section calls check() (section I with the equation its cell
\* adds), the variables that occur in the solver's assertions are the ones
\* the section declared (six letters, seven regions, N queens, 81 boxes),
\* and the solver holds for each of them the lower and the upper bound of
\* its domain.
C15_DeclaredAndBounded ==
    (pc \in {"ca_check", "mc_check", "nq_check", "su_check"} /\ enc # "decomposed") =>
        LET cs == SolverOf(puzzle)
            asserted == Range(cs)
        IN  /\ VarsOf(cs) \subseteq Range(decl)
            /\ VarsOf(cs) = Range(CASE puzzle = "ca" -> Letters
                                     [] puzzle = "mc" -> Regions
                                     [] puzzle = "nq" -> queens(sizes[i])
                                     [] puzzle = "su" -> AllBoxes)
            /\ Cardinality(VarsOf(cs)) =
                  (CASE puzzle = "ca" -> 6
                     [] puzzle = "mc" -> 7
                     [] puzzle = "nq" -> sizes[i]
                     [] puzzle = "su" -> 81)
            /\ \A x \in VarsOf(cs) :
                  /\ LowerBound(Least, x) \in asserted
                  /\ \/ UpperBound(x, Greatest) \in asserted
                     \/ Less(x, Greatest + 1) \in asserted

\* The solver of the 8x8 board is about to be checked.
C15_Witness ==
    /\ puzzle = "nq" /\ pc = "nq_check" /\ sizes[i] = 8
    /\ Less("Q7", 8) \in Range(nq_solver)

\* How many times assertion c occurs in cs.
Occurrences(c, cs) == Cardinality({n \in DOMAIN cs : cs[n] = c})

\* C16: whatever the order of a section's add statements, the solver holds
\* at check() the same assertions, each as often, as in the notebook's
\* order, and those have the same models; the answer of check() is then
\* sat with a model of the notebook-order assertions, or unsat when these
\* have no model.
C16_OrderIndependent ==
    /\ pc \in {"ca_check", "mc_check", "su_check"} =>
          LET cs == SolverOf(puzzle)
              ref == Built(puzzle)
          IN  /\ Len(cs) = Len(ref)
              /\ \A c \in Range(cs) \cup Range(ref) : Occurrences(c, cs) = Occurrences(c, ref)
              /\ Models(cs, decl) = Models(ref, decl)
    /\ (calls[puzzle] = 1 /\ out = <<>>) =>
          IF result = "sat"
          THEN Satisfies(model, Built(puzzle))
          ELSE result = "unsat" /\ Models(Built(puzzle), decl) = {}

\* The cryptarithmetic with its add statements backwards, the equation
\* first, has been solved as 938 + 938 = 1876.
C16_Witness ==
    /\ puzzle = "ca" /\ perm = <<9, 8, 7, 6, 5, 4, 3, 2, 1>>
    /\ result = "sat" /\ model["T"] = 9 /\ pc = "done"

\* The cells of a board, and those that hold a given.
Cells(b) == {<<r, c>> : r \in DOMAIN b, c \in 1..9}
GivenCells(b) == {rc \in Cells(b) : b[rc[1]][rc[2]] # 0}

\* The fixed-value assertions s_solver holds, by position.
FixedAt == {n \in DOMAIN s_solver : s_solver[n].op = "eqc"}

\* The givens have been submitted.
GivensSubmitted ==
    puzzle = "su" /\ board = NotebookBoard /\ pc \in {"su_check", "su_print", "done", "error"}

\* C17: the notebook's board has 81 cells of which 32 hold a given, and 32
\* fixed-value constraints are submitted for it, one for each given.
C17_GivensCount ==
    (puzzle = "su" /\ board = NotebookBoard) =>
        /\ Len(board) = 9 /\ \A r \in 1..9 : Len(board[r]) = 9
        /\ Cardinality(Cells(board)) = 81
        /\ Cardinality(GivenCells(board)) = 32
        /\ GivensSubmitted =>
              /\ Cardinality(FixedAt) = 32
              /\ \A rc \in GivenCells(board) :
                    \E n \in FixedAt :
                        s_solver[n] = EqualConst(boxes[rc[1]][rc[2]], board[rc[1]][rc[2]])

\* C17 as stated: 81 cells of which exactly 17 hold a given, and exactly 17
\* fixed-value constraints are submitted.
C17_SeventeenGivens ==
    (puzzle = "su" /\ board = NotebookBoard) =>
        /\ Cardinality(Cells(board)) = 81
        /\ Cardinality(GivenCells(board)) = 17
        /\ GivensSubmitted => Cardinality(FixedAt) = 17

\* The givens of the notebook's board have just been added.
C17_Witness == GivensSubmitted /\ pc = "su_check" /\ Cardinality(FixedAt) > 0

\* The diagonal assertions nq_solver holds, by position.
DiagonalsAt == {n \in DOMAIN nq_solver : nq_solver[n].op = "absne"}

\* The ways to go on from placed, the rows of the queens of the first
\* Len(placed) columns, to all N columns: each further queen on a row of
\* 0..N-1 that no earlier queen is on, with |row_a - row_b| different from
\* |a - b| for each earlier column a and the new column b.
RECURSIVE Place(_, _)
Place(N, placed) ==
    IF Len(placed) = N
    THEN {placed}
    ELSE LET b == Len(placed) + 1
             free == {r \in 0..(N - 1) :
                         \A a \in 1..Len(placed) :
                             /\ placed[a] # r
                             /\ placed[a] - r # b - a
                             /\ r - placed[a] # b - a}
         IN  UNION {Place(N, Append(placed, r)) : r \in free}

\* The assignments of rows 0..N-1 to the N queens, no two on one row, in
\* which |row_a - row_b| differs from |a - b| once for each unordered pair
\* of distinct columns.
OncePerPair(N) ==
    {[q \in Range(queens(N)) |-> placed[CHOOSE k \in 1..N : queens(N)[k] = q]] :
        placed \in Place(N, <<>>)}

\* C18: nqueens(N) holds one diagonal assertion for every ordered pair of
\* distinct columns, N*(N-1) of them, each Abs(q_a - q_b) != |a - b|; its
\* models are the assignments that satisfy the diagonal condition once per
\* unordered pair; and Abs(x) is the absolute value of x for every x in
\* -(N-1)..N-1.
C18_DiagonalEncoding ==
    (puzzle = "nq" /\ pc = "nq_check") =>
        LET N == sizes[i]
        IN  /\ Cardinality(DiagonalsAt) = N * (N - 1)
            /\ \A a \in 0..(N - 1) : \A b \in (0..(N - 1)) \ {a} :
                  \E n \in DiagonalsAt :
                      nq_solver[n] = AbsDiffNotEqual(queens(N)[a + 1], queens(N)[b + 1],
                                                     IF a > b THEN a - b ELSE b - a)
            /\ Models(nq_solver, decl) = OncePerPair(N)
            /\ \A x \in (1 - N)..(N - 1) :
                  /\ Abs(x) >= 0
                  /\ Abs(x) \in {x, 0 - x}

\* nqueens(5) has been built: 20 diagonal assertions for 10 pairs of columns.
C18_Witness ==
    /\ puzzle = "nq" /\ pc = "nq_check" /\ sizes[i] = 5
    /\ Cardinality(DiagonalsAt) = 20
    /\ Cardinality(OncePerPair(5)) = 10

\* The solution the notebook's text gives: 938 + 938 = 1876.
TextSolution ==
    ("F" :> 1) @@ ("O" :> 8) @@ ("R" :> 6) @@ ("T" :> 9) @@ ("U" :> 7) @@ ("W" :> 3)

\* The solution the recorded run printed: 867 + 867 = 1734.
RecordedSolution ==
    ("F" :> 1) @@ ("O" :> 7) @@ ("R" :> 4) @@ ("T" :> 8) @@ ("U" :> 3) @@ ("W" :> 6)

\* C19: the constraints submitted to ca_solver have more than one model,
\* every model has F = 1, the text's 938 + 938 = 1876 and the recorded
\* 867 + 867 = 1734 are both models, and whichever model check() returns
\* satisfies the constraints.
C19_SolutionSet ==
    (puzzle = "ca" /\ enc = "monolithic") =>
        /\ pc = "ca_check" =>
              LET ms == Models(ca_solver, decl)
              IN  /\ Cardinality(ms) > 1
                  /\ \A m \in ms : m["F"] = 1
                  /\ TextSolution \in ms
                  /\ RecordedSolution \in ms
        /\ pc \in {"ca_print", "done"} =>
              /\ result = "sat"
              /\ Satisfies(model, ca_solver)

\* check() has returned the text's solution instead of the recorded one.
C19_Witness ==
    /\ puzzle = "ca" /\ enc = "monolithic" /\ pc = "done"
    /\ result = "sat" /\ model = TextSolution /\ model # RecordedSolution

====
